---- MODULE Spec2Model ----
(***************************************************************************)
(* Weave (src/Weave.py): a Streamlit script.  Every user interaction       *)
(* re-executes the script top to bottom: the sidebar stores the credential *)
(* in the session state, the widgets deliver their current values, and,    *)
(* when the Transform button was clicked, the handler runs and calls       *)
(* transform_html, which blocks in client.models.generate_content until    *)
(* the service replies or the call raises.                                 *)
(*                                                                         *)
(* Text that the program transforms (the output format, the template, the  *)
(* user message) is a sequence of one-character strings, so that lower()   *)
(* and the f-string are computed.  Text that the program only passes on    *)
(* (the credential, the reply's field values) is an opaque string.  A      *)
(* Python Optional value is <<>> for None and <<v>> for a value v.         *)
(***************************************************************************)
EXTENDS Naturals, Sequences, FiniteSets, TLC

VARIABLES
    key_input,          \* the sidebar text_input's value (line 16)
    session_key,        \* st.session_state.gemini_api_key (lines 21-24)
    html_to_transform,  \* the text_area's value (line 159)
    output_format,      \* the pills' value, None when nothing is selected (line 174)
    button,             \* st.button("Transform") in the current script run (line 180)
    pc,                 \* "idle": the script run has ended; "calling": blocked in line 145
    call,               \* the run's generate_content call: "none", "pending", "replied", "raised"
    page,               \* the elements the current script run has rendered, in order
    calls,              \* generate_content calls started by the current script run
    client_key,         \* api_key the genai.Client was made with (lines 41-43)
    request,            \* the contents handed to generate_content (lines 46-53)
    raw,                \* generated_content.text of the current run's reply
    transformed_output, \* what transform_html returned to the handler
    uncaught            \* an exception left the script run (the run was aborted)

vars == <<key_input, session_key, html_to_transform, output_format, button, pc, call, page,
          calls, client_key, request, raw, transformed_output, uncaught>>

(***************************************************************************)
(* Bounds of the model.                                                    *)
(***************************************************************************)
MaxTemplateLen == 2

(***************************************************************************)
(* Python values.                                                          *)
(***************************************************************************)
None == <<>>

Some(v) == <<v>>

\* Python truthiness of an Optional[str] whose strings are opaque ("" is falsy).
TruthyOpt(o) == o # None /\ o[1] # ""

\* Python truthiness of an Optional text held as a character sequence.
TruthyText(o) == o # None /\ Len(o[1]) > 0

(***************************************************************************)
(* str.lower() on the characters the model uses.                           *)
(***************************************************************************)
LowerChar(c) ==
    CASE c = "H" -> "h"
      [] c = "T" -> "t"
      [] c = "M" -> "m"
      [] c = "L" -> "l"
      [] c = "R" -> "r"
      [] c = "V" -> "v"
      [] c = "F" -> "f"
      [] c = "D" -> "d"
      [] OTHER -> c

Lower(s) == [i \in 1..Len(s) |-> LowerChar(s[i])]

(***************************************************************************)
(* The widgets' value sets.                                                *)
(***************************************************************************)
HTML == <<"H", "T", "M", "L">>

React == <<"R", "e", "a", "c", "t">>

Vue == <<"V", "u", "e">>

Flutter == <<"F", "l", "u", "t", "t", "e", "r">>

\* output_lang_map (lines 167-172); its keys are the pills' options.
output_lang_map == (HTML :> "html") @@ (React :> "javascript") @@ (Vue :> "html") @@ (Flutter :> "dart")

PillOptionsWithSvelte == DOMAIN output_lang_map \cup {<<"S", "v", "e", "l", "t", "e">>}

\* st.pills' options (line 176): output_lang_map.keys()
PillOptions == DOMAIN output_lang_map

\* dict.get: None for a key that is not in the map.
LangOf(fmt) == IF fmt \in DOMAIN output_lang_map THEN Some(output_lang_map[fmt]) ELSE None

\* What the user can type as a credential ("" is the empty input).
KeyInputs == {"", "k1", "k2"}

\* What the user can paste as a template: upper case, lower case and markup.
TemplateChars == {"D", "<"}

RECURSIVE TextsUpTo(_)
TextsUpTo(n) ==
    IF n = 0 THEN {<<>>}
    ELSE LET shorter == TextsUpTo(n - 1)
         IN  shorter \cup {Append(t, c) : t \in {s \in shorter : Len(s) = n - 1}, c \in TemplateChars}

Templates == TextsUpTo(MaxTemplateLen)

(***************************************************************************)
(* The reply text.  generated_content.text is None, or text that is not    *)
(* JSON, or a JSON value that is not an object, or a JSON object.  An      *)
(* object is held by the value of each of the five keys ResponseSchema     *)
(* reads: absent, null, a number or a string.                              *)
(***************************************************************************)
JAbsent == [t |-> "absent", v |-> ""]

JNull == [t |-> "null", v |-> ""]

JNum == [t |-> "num", v |-> "7"]

JStr(s) == [t |-> "str", v |-> s]

OptionalFields == {"message", "code", "changes", "recommendations"}

JObject(ty, m, c, ch, r) ==
    [kind |-> "object", type |-> ty, message |-> m, code |-> c, changes |-> ch,
     recommendations |-> r]

NotObject(k) == [kind |-> k, type |-> JAbsent, message |-> JAbsent, code |-> JAbsent,
                 changes |-> JAbsent, recommendations |-> JAbsent]

TypeValues == {JAbsent, JNull, JNum, JStr("code"), JStr("text"), JStr("image")}

FieldValues(s) == {JAbsent, JNull, JStr(s)}

ObjectTexts ==
    {JObject(ty, m, c, ch, r) :
        ty \in TypeValues, m \in FieldValues("m"), c \in FieldValues("c"),
        ch \in FieldValues("ch"), r \in FieldValues("r")}

\* Objects one of whose optional fields is not a string.
IllTypedTexts ==
    {JObject(JStr("code"), JAbsent, JNum, JAbsent, JAbsent),
     JObject(JStr("text"), JNum, JAbsent, JAbsent, JAbsent)}

RawTexts == ObjectTexts \cup IllTypedTexts \cup {NotObject("none"), NotObject("garbage"), NotObject("array")}

NoReply == NotObject("noreply")

(***************************************************************************)
(* ResponseSchema (lines 27-34) and ResponseSchema.model_validate_json     *)
(* (line 151): type is a required str, the other four are Optional[str]    *)
(* with default None.  The result is [ok, value]; ok = FALSE stands for    *)
(* the exception line 152 catches.                                         *)
(***************************************************************************)
Invalid == [ok |-> FALSE,
            value |-> [type |-> "", message |-> None, code |-> None, changes |-> None,
                       recommendations |-> None]]

\* An Optional[str] field: None when the key is absent or null.
OptionalStr(j) == IF j.t = "str" THEN Some(j.v) ELSE None

ModelValidateJsonRequiringCode(text) ==
    IF text.kind # "object" THEN Invalid
    ELSE IF text.type.t # "str" THEN Invalid
    ELSE IF \E k \in OptionalFields : text[k].t \notin {"absent", "null", "str"} THEN Invalid
    ELSE IF text.type.v = "code" /\ text.code.t # "str" THEN Invalid
    ELSE [ok |-> TRUE,
          value |-> [type |-> text.type.v,
                     message |-> OptionalStr(text.message),
                     code |-> OptionalStr(text.code),
                     changes |-> OptionalStr(text.changes),
                     recommendations |-> OptionalStr(text.recommendations)]]

ModelValidateJsonSwapped(text) ==
    IF text.kind # "object" THEN Invalid
    ELSE IF text.type.t # "str" THEN Invalid
    ELSE IF \E k \in OptionalFields : text[k].t \notin {"absent", "null", "str"} THEN Invalid
    ELSE [ok |-> TRUE,
          value |-> [type |-> text.type.v,
                     message |-> OptionalStr(text.message),
                     code |-> OptionalStr(text.code),
                     changes |-> OptionalStr(text.recommendations),
                     recommendations |-> OptionalStr(text.changes)]]

ModelValidateJson(text) ==
    IF text.kind # "object" THEN Invalid
    ELSE IF text.type.t # "str" THEN Invalid
    ELSE IF \E k \in OptionalFields : text[k].t \notin {"absent", "null", "str"} THEN Invalid
    ELSE [ok |-> TRUE,
          value |-> [type |-> text.type.v,
                     message |-> OptionalStr(text.message),
                     code |-> OptionalStr(text.code),
                     changes |-> OptionalStr(text.changes),
                     recommendations |-> OptionalStr(text.recommendations)]]

(***************************************************************************)
(* The sidebar (lines 14-24): what the session state holds after the       *)
(* script has run with `input` in the credential widget.                   *)
(***************************************************************************)
SidebarKeepingStale(input, old) == IF input # "" THEN Some(input) ELSE old

Sidebar(input, old) == IF input # "" THEN Some(input) ELSE None

(***************************************************************************)
(* Page elements: the st.* call, its text as the parts it is built from    *)
(* (None for a None argument), and st.code's language.                     *)
(***************************************************************************)
Element(kind, body) == [kind |-> kind, body |-> body, language |-> None]

NoTemplateNotice == Element("error", <<"Please enter some HTML code to transform.">>)

NoFormatNotice == Element("error", <<"Please select an output format.">>)

NoKeyNotice == Element("error", <<"Please enter your Gemini API key in the sidebar.">>)

FailedNotice == Element("error", <<"Failed to transform the HTML code.">>)

ValidationNotice == Element("error", <<"Error in response schema validation: ", "e">>)

(***************************************************************************)
(* The handler's precondition chain (lines 181-186): the notice of the     *)
(* first check that fails, or None when the else branch is taken.          *)
(***************************************************************************)
HandlerErrorSkippingTemplate(template, fmt, skey) ==
    IF ~TruthyText(fmt) THEN Some(NoFormatNotice)
    ELSE IF skey = None THEN Some(NoKeyNotice)
    ELSE None

HandlerError(template, fmt, skey) ==
    IF Len(template) = 0 THEN Some(NoTemplateNotice)
    ELSE IF ~TruthyText(fmt) THEN Some(NoFormatNotice)
    ELSE IF skey = None THEN Some(NoKeyNotice)
    ELSE None

(***************************************************************************)
(* transform_html up to the call (lines 36-53).                            *)
(***************************************************************************)
\* line 37: not st.session_state.get("gemini_api_key")
CredentialMissing(skey) == ~TruthyOpt(skey)

FormatLabel == <<"F", "O", "R", "M", "A", "T", ":", " ">>

TemplateLabel == <<"T", "E", "M", "P", "L", "A", "T", "E", ":", " ">>

UserMessageLoweringAll(fmt, template) ==
    Lower(FormatLabel \o fmt \o <<"\n">> \o TemplateLabel \o template)

\* line 50: f"FORMAT: {output_format.lower()}\nTEMPLATE: {template}"
UserMessage(fmt, template) ==
    FormatLabel \o Lower(fmt) \o <<"\n">> \o TemplateLabel \o template

\* lines 46-53: one Content of role user with one text part
Contents(fmt, template) == << [role |-> "user", parts |-> << UserMessage(fmt, template) >>] >>

(***************************************************************************)
(* The handler after transform_html has returned (lines 193-204).          *)
(***************************************************************************)
RenderReply(out, fmt) ==
    IF out.type = "code"
    THEN << Element("success", <<"Transformation successful!">>),
            [kind |-> "code", body |-> out.code, language |-> LangOf(fmt)] >>
         \o (IF TruthyOpt(out.changes)
             THEN << Element("info", <<"Changes made: ", out.changes[1]>>) >> ELSE <<>>)
         \o (IF TruthyOpt(out.recommendations)
             THEN << Element("warning", <<"Recommendations: ", out.recommendations[1]>>) >>
             ELSE <<>>)
    ELSE << Element("text", out.message) >>

(***************************************************************************)
(* What follows a reply that does not validate (lines 152-154): the        *)
(* notice, then return None; no second call.                               *)
(***************************************************************************)
ValidationFailedRetrying(c) == [pc |-> "calling", call |-> "pending", calls |-> c + 1]

ValidationFailed(c) == [pc |-> "idle", call |-> "replied", calls |-> c]

(***************************************************************************)
(* The script.  A run that does not reach the handler's else branch ends   *)
(* at once; its locals are those of a fresh run.                           *)
(***************************************************************************)
\* st.pills (lines 174-178): nothing selected, or one of the options.
FormatInputs == {None} \cup {Some(f) : f \in PillOptions}

NoCall ==
    /\ pc' = "idle"
    /\ call' = "none"
    /\ calls' = 0
    /\ client_key' = None
    /\ request' = <<>>
    /\ raw' = NoReply
    /\ transformed_output' = None

\* A rerun whose button is not clicked: lines 14-24 and the widgets, nothing rendered.
RunWithoutClick ==
    /\ session_key' = Sidebar(key_input', session_key)
    /\ button' = FALSE
    /\ page' = <<>>
    /\ uncaught' = FALSE
    /\ NoCall

Init ==
    /\ key_input = ""
    /\ session_key = None
    /\ html_to_transform = <<>>
    /\ output_format = None
    /\ button = FALSE
    /\ pc = "idle"
    /\ call = "none"
    /\ page = <<>>
    /\ calls = 0
    /\ client_key = None
    /\ request = <<>>
    /\ raw = NoReply
    /\ transformed_output = None
    /\ uncaught = FALSE

\* The user edits the credential in the sidebar; the script reruns.
EditCredential(v) ==
    /\ pc = "idle"
    /\ v # key_input
    /\ key_input' = v
    /\ UNCHANGED <<html_to_transform, output_format>>
    /\ RunWithoutClick

\* The user edits the text area; the script reruns.
EditTemplate(t) ==
    /\ pc = "idle"
    /\ t # html_to_transform
    /\ html_to_transform' = t
    /\ UNCHANGED <<key_input, output_format>>
    /\ RunWithoutClick

\* The user selects or deselects a pill; the script reruns.
SelectFormat(f) ==
    /\ pc = "idle"
    /\ f # output_format
    /\ output_format' = f
    /\ UNCHANGED <<key_input, html_to_transform>>
    /\ RunWithoutClick

(***************************************************************************)
(* The user clicks Transform: the script reruns with the button set        *)
(* (lines 14-24, 180-192) and, when the handler's checks pass, enters      *)
(* transform_html (lines 36-149), which starts the call and blocks.        *)
(***************************************************************************)
ClickTransform ==
    /\ pc = "idle"
    /\ UNCHANGED <<key_input, html_to_transform, output_format>>
    /\ session_key' = Sidebar(key_input, session_key)
    /\ button' = TRUE
    /\ LET err == HandlerError(html_to_transform, output_format, session_key')
       IN  IF err # None
           THEN \* lines 181-186: one notice, transform_html is not called
                /\ page' = << err[1] >>
                /\ uncaught' = FALSE
                /\ NoCall
           ELSE IF output_format = None
           THEN \* line 190: None has no lower(); the AttributeError leaves the script
                /\ page' = <<>>
                /\ uncaught' = TRUE
                /\ NoCall
           ELSE IF CredentialMissing(session_key')
           THEN \* lines 37-39, then the handler's line 204
                /\ page' = << NoKeyNotice, FailedNotice >>
                /\ uncaught' = FALSE
                /\ NoCall
           ELSE \* lines 41-149: client, contents, generate_content
                /\ page' = <<>>
                /\ uncaught' = FALSE
                /\ client_key' = session_key'
                /\ request' = Contents(Lower(output_format[1]), html_to_transform)
                /\ calls' = 1
                /\ call' = "pending"
                /\ pc' = "calling"
                /\ raw' = NoReply
                /\ transformed_output' = None

(***************************************************************************)
(* generate_content returns (line 149); lines 150-155 validate the text    *)
(* and lines 193-204 render what transform_html returned.                  *)
(***************************************************************************)
ServiceReplies(text) ==
    /\ pc = "calling"
    /\ UNCHANGED <<key_input, session_key, html_to_transform, output_format, button,
                   client_key, request, uncaught>>
    /\ raw' = text
    /\ LET validated == ModelValidateJson(text)
           failed == ValidationFailed(calls)
       IN  IF validated.ok
           THEN /\ transformed_output' = Some(validated.value)
                /\ page' = page \o RenderReply(validated.value, output_format[1])
                /\ pc' = "idle"
                /\ call' = "replied"
                /\ calls' = calls
           ELSE /\ transformed_output' = None
                /\ page' = page \o << ValidationNotice >>
                           \o (IF failed.pc = "idle" THEN << FailedNotice >> ELSE <<>>)
                /\ pc' = failed.pc
                /\ call' = failed.call
                /\ calls' = failed.calls

(***************************************************************************)
(* generate_content raises (network, auth rejection, quota).  Line 145 is  *)
(* outside the try of lines 150-154 and the handler has no try: the        *)
(* exception leaves transform_html, the handler and the script run.        *)
(***************************************************************************)
ServiceRaises ==
    /\ pc = "calling"
    /\ UNCHANGED <<key_input, session_key, html_to_transform, output_format, button,
                   client_key, request, raw, transformed_output, page, calls>>
    /\ call' = "raised"
    /\ uncaught' = TRUE
    /\ pc' = "idle"

Next ==
    \/ \E v \in KeyInputs : EditCredential(v)
    \/ \E t \in Templates : EditTemplate(t)
    \/ \E f \in FormatInputs : SelectFormat(f)
    \/ ClickTransform
    \/ \E text \in RawTexts : ServiceReplies(text)
    \/ ServiceRaises

Spec == Init /\ [][Next]_vars

(***************************************************************************)
(* Properties.                                                             *)
(***************************************************************************)
Count(kind) == Cardinality({i \in DOMAIN page : page[i].kind = kind})

\* Error notices the user sees for the current run: the st.error elements, and the
\* exception box Streamlit's script runner shows for an exception that left the script.
ErrorNotices == Count("error") + (IF uncaught THEN 1 ELSE 0)

\* The Transform action of the current run has ended without a reply object.
ActionFailed == button /\ pc = "idle" /\ transformed_output = None

\* C1: a reply that is a JSON object whose type is missing or is not "code" or "text"
\* is a schema validation failure: transform_html returns no reply object, the
\* validation notice is shown, and no code block, text message or success notice is
\* rendered.
C1_UnknownTypeRejected ==
    (call = "replied" /\ pc = "idle" /\ raw.kind = "object"
        /\ raw.type \notin {JStr("code"), JStr("text")})
    => /\ transformed_output = None
       /\ \E i \in DOMAIN page : page[i] = ValidationNotice
       /\ Count("code") + Count("text") + Count("success") = 0

\* C2: every failed Transform action shows exactly one error notice.
C2_ExactlyOneErrorNotice == ActionFailed => ErrorNotices = 1

\* C3: when generate_content raises, transform_html returns the failure indicator
\* (None) to the handler, no exception leaves the handler, and the handler shows
\* its error notice.
C3_TransportFailureHandled ==
    call = "raised"
    => /\ ~uncaught
       /\ transformed_output = None
       /\ \E i \in DOMAIN page : page[i] = FailedNotice

\* C4: a run has started a generate_content call only if the stored credential is
\* non-empty, the template is non-empty and a format is selected; a click with an
\* empty template builds no request, starts no call, returns no reply and shows one
\* error.
C4_CallOnlyWithPreconditions ==
    /\ call # "none"
       => /\ session_key # None /\ session_key[1] # ""
          /\ Len(html_to_transform) > 0
          /\ output_format # None
    /\ (button /\ Len(html_to_transform) = 0)
       => /\ call = "none" /\ calls = 0 /\ request = <<>>
          /\ pc = "idle"
          /\ transformed_output = None
          /\ page = << NoTemplateNotice >>

\* An empty template with a format selected and a credential stored, clicked.
C4_Witness ==
    /\ button /\ Len(html_to_transform) = 0
    /\ output_format # None /\ session_key # None
    /\ page = << NoTemplateNotice >>

WireFormats ==
    {<<"h", "t", "m", "l">>, <<"r", "e", "a", "c", "t">>, <<"v", "u", "e">>,
     <<"f", "l", "u", "t", "t", "e", "r">>}

\* The output format the run was given is one of html, react, vue, flutter in some
\* letter case.
FormatInSet ==
    /\ output_format # None
    /\ \E w \in WireFormats :
          /\ Len(w) = Len(output_format[1])
          /\ \A i \in 1..Len(w) : LowerChar(output_format[1][i]) = w[i]

\* C5: a run whose output format is outside {html, react, vue, flutter} (nothing
\* selected included) starts no generate_content call and builds no request; a
\* click in that state is rejected with a notice.
C5_NoCallOutsideFormatSet ==
    /\ ~FormatInSet => (call = "none" /\ calls = 0 /\ request = <<>>)
    /\ (button /\ ~FormatInSet) => (pc = "idle" /\ Count("error") = 1 /\ ~uncaught)

\* Nothing selected, template and credential present, clicked: rejected.
C5_Witness ==
    /\ button /\ output_format = None
    /\ Len(html_to_transform) > 0 /\ session_key # None
    /\ page = << NoFormatNotice >> /\ call = "none"

\* lower(outputFormat) for the four formats, written out.
WireName(f) ==
    CASE f = <<"H", "T", "M", "L">> -> <<"h", "t", "m", "l">>
      [] f = <<"R", "e", "a", "c", "t">> -> <<"r", "e", "a", "c", "t">>
      [] f = <<"V", "u", "e">> -> <<"v", "u", "e">>
      [] f = <<"F", "l", "u", "t", "t", "e", "r">> -> <<"f", "l", "u", "t", "t", "e", "r">>

\* C6: the request of a started call holds exactly one message, of role user, with
\* exactly one text part, equal to "FORMAT: " lower(outputFormat) newline
\* "TEMPLATE: " template, the template unmodified.
C6_UserMessageExact ==
    call # "none"
    => /\ Len(request) = 1
       /\ request[1].role = "user"
       /\ Len(request[1].parts) = 1
       /\ request[1].parts[1] =
             <<"F", "O", "R", "M", "A", "T", ":", " ">> \o WireName(output_format[1])
             \o <<"\n">> \o <<"T", "E", "M", "P", "L", "A", "T", "E", ":", " ">>
             \o html_to_transform

\* A call for React with an upper-case letter in the template.
C6_Witness ==
    /\ call = "pending" /\ output_format = Some(React)
    /\ \E i \in DOMAIN html_to_transform : html_to_transform[i] = "D"

\* C7: a Transform action starts at most one generate_content call, and exactly
\* one when the credential, the template and the format are present; after the
\* call raised or its reply failed validation the run has ended with that one
\* call; nothing is rendered while the call is pending.
C7_OneCallPerAction ==
    /\ calls <= 1
    /\ (calls = 1) = (call # "none")
    /\ (button /\ key_input # "" /\ Len(html_to_transform) > 0 /\ output_format # None)
       => calls = 1
    /\ (call = "raised" \/ (call = "replied" /\ transformed_output = None))
       => (pc = "idle" /\ calls = 1)
    /\ (pc = "calling") = (call = "pending")
    /\ pc = "calling" => page = <<>>

\* A reply failed validation and the run ended after one call.
C7_Witness ==
    /\ call = "replied" /\ transformed_output = None /\ calls = 1 /\ pc = "idle"
    /\ \E i \in DOMAIN page : page[i] = ValidationNotice

\* The reply objects of the round trip: type code or text, each other field None or
\* a string.
ReplyObjects ==
    [type : {"code", "text"}, message : {None, Some("m")}, code : {None, Some("c")},
     changes : {None, Some("ch")}, recommendations : {None, Some("r")}]

JsonOf(o, absent) == IF o = None THEN absent ELSE JStr(o[1])

\* The reply as a JSON object, a None field left out (absent = JAbsent) or written
\* as null (absent = JNull).
Serialize(r, absent) ==
    JObject(JStr(r.type), JsonOf(r.message, absent), JsonOf(r.code, absent),
            JsonOf(r.changes, absent), JsonOf(r.recommendations, absent))

\* C8: when the reply text is the serialization of a reply object r, what
\* transform_html returns is r: the same type, the same value for every field that
\* is present, None for every field that is absent.
C8_RoundTrip ==
    \A r \in ReplyObjects :
        (call = "replied" /\ pc = "idle" /\ raw \in {Serialize(r, JAbsent), Serialize(r, JNull)})
        => transformed_output = Some(r)

\* {"type":"code","code":"c","changes":"ch"} came back and was returned as such.
C8_Witness ==
    /\ call = "replied"
    /\ raw = JObject(JStr("code"), JAbsent, JStr("c"), JStr("ch"), JAbsent)
    /\ transformed_output = Some([type |-> "code", message |-> None, code |-> Some("c"),
                                  changes |-> Some("ch"), recommendations |-> None])

\* C9: a reply of type code whose code is absent or null validates, is returned by
\* transform_html, and the handler renders the success notice and a code block
\* whose content is None, and no error.
C9_MissingCodeIsSoft ==
    (call = "replied" /\ pc = "idle" /\ raw.kind = "object" /\ raw.type = JStr("code")
        /\ raw.code \in {JAbsent, JNull}
        /\ \A k \in OptionalFields : raw[k].t # "num")
    => /\ transformed_output # None
       /\ transformed_output[1].type = "code"
       /\ transformed_output[1].code = None
       /\ Len(page) >= 2
       /\ page[1].kind = "success"
       /\ page[2].kind = "code" /\ page[2].body = None
       /\ ErrorNotices = 0

\* {"type":"code"} came back.
C9_Witness ==
    /\ call = "replied"
    /\ raw = JObject(JStr("code"), JAbsent, JAbsent, JAbsent, JAbsent)
    /\ Len(page) = 2 /\ page[2].kind = "code" /\ page[2].body = None

\* C10: the stored credential is the sidebar's current value, None when that is
\* empty; the client of a call was made with it; while the sidebar is empty a click
\* starts no call and shows one notice.
C10_StoredCredentialCurrent ==
    /\ session_key = (IF key_input = "" THEN None ELSE Some(key_input))
    /\ call # "none" => (key_input # "" /\ client_key = Some(key_input))
    /\ (button /\ key_input = "") => (call = "none" /\ calls = 0 /\ ErrorNotices = 1)

\* Template and format present, the sidebar empty, clicked: blocked.
C10_Witness ==
    /\ button /\ key_input = "" /\ session_key = None
    /\ Len(html_to_transform) > 0 /\ output_format # None
    /\ page = << NoKeyNotice >> /\ call = "none"

====
